---- MODULE Spec2Model ----
(***************************************************************************)
(* DevSync (src/devsync.py): a script that walks a directory, extracts     *)
(* class and function names plus a summary from every code file, and then  *)
(* either searches the extracted records or renders a Markdown report.     *)
(*                                                                         *)
(* A Python str is modelled as a sequence of one-character strings, so     *)
(* that endswith, split, slicing, the regular expressions and the report   *)
(* text are computed character by character.  A character outside ASCII is *)
(* written by its code point ("U+1F916").                                  *)
(***************************************************************************)
EXTENDS Integers, Sequences, FiniteSets, TLC

VARIABLES rootOK, disk, sys_argv, pc, files, i, code_info, results, stdout, report, log

vars == <<rootOK, disk, sys_argv, pc, files, i, code_info, results, stdout, report, log>>

(***************************************************************************)
(* Bounds of the explored inputs.                                          *)
(***************************************************************************)
\* most directory entries of one run drawn from the file catalogue
MaxFiles == 2
\* most syntax-tree nodes of a generated Python source
MaxNodes == 3
\* most lexical pieces of a generated .cpp text
MaxToks == 4
\* how far past the truncation limit the generated long texts reach
MaxExtra == 1

(***************************************************************************)
(* Characters and str methods.                                             *)
(***************************************************************************)
Lower == {"a","b","c","d","e","f","g","h","i","j","k","l","m",
          "n","o","p","q","r","s","t","u","v","w","x","y","z"}

Upper == {"A","B","C","D","E","F","G","H","I","J","K","L","M",
          "N","O","P","Q","R","S","T","U","V","W","X","Y","Z"}

Digit == {"0","1","2","3","4","5","6","7","8","9"}

WordChars == Lower \cup Upper \cup Digit \cup {"_"}

\* \w of the re module
IsWord(c) == c \in WordChars

SpaceChars == {" ", "\t", "\n", "\r", "\f"}

\* \s of the re module, and the separators of str.split()
IsSpace(c) == c \in SpaceChars

IdentStartChars == Lower \cup Upper \cup {"_"}

\* [a-zA-Z_]
IsIdentStart(c) == c \in IdentStartChars

Min(a, b) == IF a <= b THEN a ELSE b

RECURSIVE Concat(_)
\* "".join(parts)
Concat(parts) == IF parts = <<>> THEN <<>> ELSE Head(parts) \o Concat(Tail(parts))

\* s.endswith(suffix)
str_endswith(s, suffix) ==
    /\ Len(s) >= Len(suffix)
    /\ SubSeq(s, Len(s) - Len(suffix) + 1, Len(s)) = suffix

\* len(s.split()): the number of maximal runs of non-whitespace characters
split_len(s) ==
    Cardinality({k \in 1..Len(s) : /\ ~IsSpace(s[k])
                                   /\ (k = 1 \/ IsSpace(s[k - 1]))})

\* s[:n]
Slice(s, n) == SubSeq(s, 1, Min(n, Len(s)))

\* x in lst
In(x, lst) == \E k \in 1..Len(lst) : lst[k] = x

\* os.path.join(root, file), root not ending in a separator
os_path_join(root, file) == root \o <<"/">> \o file

\* os.path.basename(path): what follows the last separator
os_path_basename(path) ==
    LET seps == {k \in 1..Len(path) : path[k] = "/"}
        last == IF seps = {} THEN 0
                ELSE CHOOSE k \in seps : \A o \in seps : o <= k
    IN  SubSeq(path, last + 1, Len(path))

(***************************************************************************)
(* get_code_files: the directory walk.                                     *)
(***************************************************************************)
\* the default and the passed extension list
extensions == << <<".","p","y">>, <<".","j","s">>, <<".","c","p","p">>, <<".","j","a","v","a">> >>

\* os_walk, were the entries listed whatever the state of the root
os_walk_anyway(directory) == disk

\* os.walk(directory) with the default onerror=None: the (root, file)
\* entries in walk order; a root that cannot be listed yields nothing
os_walk(directory) == IF rootOK THEN disk ELSE <<>>

\* any(file.endswith(ext) for ext in extensions)
any_endswith(file, exts) == \E k \in 1..Len(exts) : str_endswith(file, exts[k])

RECURSIVE collect_code_files(_, _)
collect_code_files(entries, exts) ==
    IF entries = <<>> THEN <<>>
    ELSE LET e == Head(entries)
             rest == collect_code_files(Tail(entries), exts)
         IN  IF any_endswith(e.name, exts)
             THEN <<os_path_join(e.root, e.name)>> \o rest
             ELSE rest

get_code_files(directory, exts) == collect_code_files(os_walk(directory), exts)

\* f.read() of the file at path
read(path) ==
    LET k == CHOOSE k \in 1..Len(disk) : os_path_join(disk[k].root, disk[k].name) = path
    IN  disk[k].body

Event(ev, path, text) == [ev |-> ev, path |-> path, text |-> text]

(***************************************************************************)
(* generate_ai_summary: the adapter of the external summarizer.  response  *)
(* is what the external pipeline would answer if it were called.           *)
(***************************************************************************)
MinTokens == 50

MaxChars == 1024

Sentinel == <<"C","o","d","e"," ","i","s"," ","t","o","o"," ","s","h","o","r","t"," ","f","o","r"," ","m","e","a","n","i","n","g","f","u","l"," ","s","u","m","m","a","r","i","z","a","t","i","o","n",".">>

\* too_short, had the test been <= 50
too_short_inclusive(content) == split_len(content) <= MinTokens

\* the length test of generate_ai_summary
too_short(content) == split_len(content) < MinTokens

\* the text handed to the pipeline
truncate(content) == Slice(content, MaxChars)

\* ret: the returned summary; sent: the texts passed to the pipeline;
\* raised: the pipeline raised and the exception propagates
generate_ai_summary(content, response) ==
    IF too_short(content)
    THEN [raised |-> FALSE, ret |-> Sentinel, sent |-> <<>>]
    ELSE IF response.ok
         THEN [raised |-> FALSE, ret |-> response.summary_text,
               sent |-> <<truncate(content)>>]
         ELSE [raised |-> TRUE, ret |-> <<>>, sent |-> <<truncate(content)>>]

(***************************************************************************)
(* extract_python_info.  The tree that ast.parse builds is part of the     *)
(* file body: its ClassDef, FunctionDef and AsyncFunctionDef nodes in      *)
(* textual order (preorder), each with its nesting depth; node 0 is the    *)
(* Module.                                                                 *)
(***************************************************************************)
NodeDepth(tree, n) == IF n = 0 THEN 0 ELSE tree[n].depth

\* ast.iter_child_nodes: the nodes directly below n, in field order
iter_child_nodes(tree, n) ==
    LET kids == {j \in (n + 1)..Len(tree) :
                    /\ tree[j].depth = NodeDepth(tree, n) + 1
                    /\ \A k \in (n + 1)..(j - 1) : tree[k].depth > NodeDepth(tree, n)}
    IN  [k \in 1..Cardinality(kids) |->
            CHOOSE j \in kids : Cardinality({o \in kids : o < j}) = k - 1]

RECURSIVE walk_stack(_, _)
\* walk_queue, had the children been visited before the siblings
walk_stack(tree, todo) ==
    IF todo = <<>> THEN <<>>
    ELSE <<Head(todo)>> \o
         walk_stack(tree, iter_child_nodes(tree, Head(todo)) \o Tail(todo))

RECURSIVE walk_queue(_, _)
\* the loop of ast.walk: popleft a node, extend the deque by its children
walk_queue(tree, todo) ==
    IF todo = <<>> THEN <<>>
    ELSE <<Head(todo)>> \o
         walk_queue(tree, Tail(todo) \o iter_child_nodes(tree, Head(todo)))

\* ast.walk(tree): the nodes in the order they are yielded
ast_walk(tree) == walk_queue(tree, <<0>>)

\* [node.name for node in ast.walk(tree) if isinstance(node, kind)]
names_of_kind(tree, kind) ==
    LET order == ast_walk(tree)
        hits == SelectSeq(order, LAMBDA n : n # 0 /\ tree[n].kind = kind)
    IN  [k \in 1..Len(hits) |-> tree[hits[k]].name]

\* events: what the call did until it returned or raised
extract_python_info(file_path, response) ==
    LET body == read(file_path)
        opened == <<Event("open", file_path, <<>>), Event("ast.parse", file_path, <<>>)>>
        s == generate_ai_summary(body.text, response)
        entered == <<Event("generate_ai_summary", file_path, <<>>)>>
        called == [k \in 1..Len(s.sent) |-> Event("summarizer", file_path, s.sent[k])]
        raise == IF s.raised THEN <<Event("raise", file_path, <<>>)>> ELSE <<>>
    IN  IF ~body.valid
        THEN [raised |-> TRUE, record |-> <<>>,
              events |-> Append(opened, Event("raise", file_path, <<>>))]
        ELSE [raised |-> s.raised,
              record |-> [file |-> file_path,
                          classes |-> names_of_kind(body.tree, "ClassDef"),
                          functions |-> names_of_kind(body.tree, "FunctionDef"),
                          summary |-> s.ret],
              events |-> opened \o entered \o called \o raise]

(***************************************************************************)
(* extract_js_cpp_info: the two regular expressions.                       *)
(***************************************************************************)
\* the character at position k, "" outside the text
At(t, k) == IF k >= 1 /\ k <= Len(t) THEN t[k] ELSE ""

\* \b at position k
WordBoundary(t, k) == IsWord(At(t, k - 1)) # IsWord(At(t, k))

\* the literal lit starts at position k
Literal(t, k, lit) ==
    /\ k + Len(lit) - 1 <= Len(t)
    /\ \A j \in 1..Len(lit) : t[k + j - 1] = lit[j]

\* \s* from position k: the first position that is not whitespace
SkipSpace(t, k) ==
    CHOOSE j \in k..(Len(t) + 1) :
        /\ ~IsSpace(At(t, j))
        /\ \A m \in k..(j - 1) : IsSpace(t[m])

\* \w* from position k: the first position that is not a word character
SkipWord(t, k) ==
    CHOOSE j \in k..(Len(t) + 1) :
        /\ ~IsWord(At(t, j))
        /\ \A m \in k..(j - 1) : IsWord(t[m])

NoMatch == [ok |-> FALSE, end |-> 0, group |-> <<>>]

\* r"\bclass\s+(\w+)" tried at position k
class_pattern(t, k) ==
    LET a == k + 5
        b == SkipSpace(t, a)
        c == SkipWord(t, b)
    IN  IF WordBoundary(t, k) /\ Literal(t, k, <<"c","l","a","s","s">>) /\ b > a /\ c > b
        THEN [ok |-> TRUE, end |-> c, group |-> SubSeq(t, b, c - 1)]
        ELSE NoMatch

\* r"\s*(\w+)\s*\(" from position k, the part after the alternation
name_and_paren(t, k) ==
    LET a == SkipSpace(t, k)
        b == SkipWord(t, a)
        c == SkipSpace(t, b)
    IN  IF b > a /\ At(t, c) = "("
        THEN [ok |-> TRUE, end |-> c + 1, group |-> SubSeq(t, a, b - 1)]
        ELSE NoMatch

\* r"function\s+" at position k: the position after it, 0 if it fails
alt_function(t, k) ==
    IF Literal(t, k, <<"f","u","n","c","t","i","o","n">>) /\ SkipSpace(t, k + 8) > k + 8
    THEN SkipSpace(t, k + 8) ELSE 0

\* r"[a-zA-Z_]\w*\s*\(" at position k: the position after it, 0 if it fails
alt_ident_paren(t, k) ==
    LET a == SkipWord(t, k)
        b == SkipSpace(t, a)
    IN  IF IsIdentStart(At(t, k)) /\ At(t, b) = "(" THEN b + 1 ELSE 0

\* r"\b(?:function\s+|[a-zA-Z_]\w*\s*\()\s*(\w+)\s*\(" tried at position k:
\* the second alternative is tried when the first one, or what follows it, fails
function_pattern(t, k) ==
    LET p1 == alt_function(t, k)
        p2 == alt_ident_paren(t, k)
    IN  IF ~WordBoundary(t, k) THEN NoMatch
        ELSE IF p1 # 0 /\ name_and_paren(t, p1).ok THEN name_and_paren(t, p1)
        ELSE IF p2 # 0 THEN name_and_paren(t, p2)
        ELSE NoMatch

MatchAt(pattern, t, k) ==
    IF pattern = "class_pattern" THEN class_pattern(t, k) ELSE function_pattern(t, k)

RECURSIVE find_from(_, _, _)
\* the scan of re.findall: leftmost match at or after pos, then on from its end
find_from(pattern, t, pos) ==
    LET starts == {k \in pos..Len(t) : MatchAt(pattern, t, k).ok}
    IN  IF starts = {} THEN <<>>
        ELSE LET s == CHOOSE k \in starts : \A o \in starts : k <= o
                 m == MatchAt(pattern, t, s)
             IN  <<m.group>> \o find_from(pattern, t, m.end)

\* re.findall(pattern, content) for a pattern with one group
re_findall(pattern, content) == find_from(pattern, content, 1)

extract_js_cpp_info(file_path, response) ==
    LET body == read(file_path)
        opened == <<Event("open", file_path, <<>>), Event("re.findall", file_path, <<>>)>>
        s == generate_ai_summary(body.text, response)
        entered == <<Event("generate_ai_summary", file_path, <<>>)>>
        called == [k \in 1..Len(s.sent) |-> Event("summarizer", file_path, s.sent[k])]
        raise == IF s.raised THEN <<Event("raise", file_path, <<>>)>> ELSE <<>>
    IN  [raised |-> s.raised,
         record |-> [file |-> file_path,
                     classes |-> re_findall("class_pattern", body.text),
                     functions |-> re_findall("function_pattern", body.text),
                     summary |-> s.ret],
         events |-> opened \o entered \o called \o raise]

(***************************************************************************)
(* generate_markdown_summary and search_codebase.                          *)
(***************************************************************************)
Title == <<"#"," ","C","o","d","e","M","a","p"," ","S","u","m","m","a","r","y"," ","(","A","I","-","P","o","w","e","r","e","d",")"," ","U+1F916","\n","\n">>

\* one "- `name`" line per name
bullets(names) ==
    Concat([k \in 1..Len(names) |-> <<"-"," ","U+0060">> \o names[k] \o <<"U+0060","\n">>])

\* section_head, had the Classes heading been written for every item
section_head_always_classes(item) ==
    <<"#","#"," ">> \o os_path_basename(item.file) \o <<"\n">>
    \o <<"U+1F4C2"," ","*","*","P","a","t","h",":","*","*"," ","U+0060">> \o item.file \o <<"U+0060","\n","\n">>
    \o <<"#","#","#"," ","C","l","a","s","s","e","s","\n">> \o bullets(item.classes)
    \o (IF item.functions # <<>> THEN <<"\n","#","#","#"," ","F","u","n","c","t","i","o","n","s","\n">> \o bullets(item.functions) ELSE <<>>)
    \o <<"\n","#","#","#"," ","A","I","-","P","o","w","e","r","e","d"," ","S","u","m","m","a","r","y"," ","U+1F4DC","\n">>
    \o <<"U+1F4DD"," ">>

\* section_head, had classes and functions been listed under one heading
section_head_merged(item) ==
    <<"#","#"," ">> \o os_path_basename(item.file) \o <<"\n">>
    \o <<"U+1F4C2"," ","*","*","P","a","t","h",":","*","*"," ","U+0060">> \o item.file \o <<"U+0060","\n","\n">>
    \o (IF item.classes # <<>> \/ item.functions # <<>>
        THEN <<"#","#","#"," ","C","l","a","s","s","e","s","\n">> \o bullets(item.classes \o item.functions) ELSE <<>>)
    \o <<"\n","#","#","#"," ","A","I","-","P","o","w","e","r","e","d"," ","S","u","m","m","a","r","y"," ","U+1F4DC","\n">>
    \o <<"U+1F4DD"," ">>

\* everything written for one item before its summary text
section_head(item) ==
    <<"#","#"," ">> \o os_path_basename(item.file) \o <<"\n">>
    \o <<"U+1F4C2"," ","*","*","P","a","t","h",":","*","*"," ","U+0060">> \o item.file \o <<"U+0060","\n","\n">>
    \o (IF item.classes # <<>> THEN <<"#","#","#"," ","C","l","a","s","s","e","s","\n">> \o bullets(item.classes) ELSE <<>>)
    \o (IF item.functions # <<>> THEN <<"\n","#","#","#"," ","F","u","n","c","t","i","o","n","s","\n">> \o bullets(item.functions) ELSE <<>>)
    \o <<"\n","#","#","#"," ","A","I","-","P","o","w","e","r","e","d"," ","S","u","m","m","a","r","y"," ","U+1F4DC","\n">>
    \o <<"U+1F4DD"," ">>

\* what is written after the summary text of an item
section_tail == <<"\n","\n">> \o <<"\n","-","-","-","\n">>

\* the writes of one iteration of the loop over code_info
section(item) == section_head(item) \o item.summary \o section_tail

\* the text in the file when generate_markdown_summary closes it
generate_markdown_summary(items) ==
    Title \o Concat([k \in 1..Len(items) |-> section(items[k])])

\* the line printed by generate_markdown_summary
Confirmation71 == <<"U+2705"," ","A","I","-","p","o","w","e","r","e","d"," ","c","o","d","e"," ","s","u","m","m","a","r","y"," ","g","e","n","e","r","a","t","e","d"," ","i","n"," ","D","e","v","S","y","n","c",".","m","d","!">>

\* the line printed by the caller after it
Confirmation116 == <<"U+2705"," ","C","o","d","e"," ","s","u","m","m","a","r","y"," ","g","e","n","e","r","a","t","e","d"," ","i","n"," ","D","e","v","S","y","n","c",".","m","d","!">>

\* item_matches, had the test looked at classes only
item_matches_classes(item, search_term) == In(search_term, item.classes)

\* the test of the loop of search_codebase
item_matches(item, search_term) ==
    In(search_term, item.classes) \/ In(search_term, item.functions)

RECURSIVE search_codebase(_, _)
search_codebase(items, search_term) ==
    IF items = <<>> THEN <<>>
    ELSE (IF item_matches(Head(items), search_term) THEN <<Head(items).file>> ELSE <<>>)
         \o search_codebase(Tail(items), search_term)

FoundHeader(search_term) == <<"U+1F50D"," ","F","o","u","n","d"," ","U+0060">> \o search_term \o <<"U+0060"," ","i","n",":">>

FoundLine(res) == <<"-"," ">> \o res

NotFound(search_term) == <<"U+274C"," ","U+0060">> \o search_term \o <<"U+0060"," ","n","o","t"," ","f","o","u","n","d"," ","i","n"," ","t","h","e"," ","c","o","d","e","b","a","s","e",".">>

\* the lines printed in search mode
search_output(found, search_term) ==
    IF found # <<>>
    THEN <<FoundHeader(search_term)>> \o [k \in 1..Len(found) |-> FoundLine(found[k])]
    ELSE <<NotFound(search_term)>>

(***************************************************************************)
(* The inputs of a run: the directory, the command line, the report file   *)
(* left by an earlier run, and the answers of the external summarizer.     *)
(***************************************************************************)
\* output_file="DevSync.md"
ReportPath == <<"D","e","v","S","y","n","c",".","m","d">>

\* the directory passed to get_code_files
Cwd == <<".">>

\* sys.argv[0]
Prog == <<"d","e","v","s","y","n","c",".","p","y">>

Node(kind, name, depth) == [kind |-> kind, name |-> name, depth |-> depth]

Labels == {<<"ClassDef", <<"A">>>>, <<"ClassDef", <<"B">>>>,
           <<"FunctionDef", <<"f">>>>, <<"FunctionDef", <<"g">>>>,
           <<"AsyncFunctionDef", <<"h">>>>}

\* depths of the nodes of a tree in textual order: the first node is at the
\* top level, every other node at most one level below its predecessor
WellNested(depths) ==
    \A k \in DOMAIN depths : depths[k] <= (IF k = 1 THEN 1 ELSE depths[k - 1] + 1)

\* the tree of the nodes with the given labels and depths
MakeTree(labels, depths) ==
    <<>> \o [k \in DOMAIN labels |-> Node(labels[k][1], labels[k][2], depths[k])]

Indent(d) == Concat([k \in 1..d |-> <<" "," "," "," ">>])

Header(node) ==
    CASE node.kind = "ClassDef" -> <<"c","l","a","s","s"," ">> \o node.name \o <<":">>
      [] node.kind = "FunctionDef" -> <<"d","e","f"," ">> \o node.name \o <<"(",")",":">>
      [] OTHER -> <<"a","s","y","n","c"," ","d","e","f"," ">> \o node.name \o <<"(",")",":">>

IsLeaf(tree, n) == n = Len(tree) \/ tree[n + 1].depth <= tree[n].depth

\* the source lines of node n: its header, and a body of pass when it has none
SourceLines(tree, n) ==
    Indent(tree[n].depth - 1) \o Header(tree[n]) \o <<"\n">>
    \o (IF IsLeaf(tree, n) THEN Indent(tree[n].depth) \o <<"p","a","s","s","\n">> ELSE <<>>)

\* a Python source text whose syntax tree is tree
Unparse(tree) == Concat([n \in 1..Len(tree) |-> SourceLines(tree, n)])

\* a comment line of 60 words
Filler == <<"#">> \o [k \in 1..120 |-> IF k % 2 = 1 THEN " " ELSE "w"] \o <<"\n">>

PyBody(tree, tail) == [text |-> Unparse(tree) \o tail, valid |-> TRUE, tree |-> tree]

TextBody(text) == [text |-> text, valid |-> FALSE, tree |-> <<>>]

DiskFile(root, name, body) == [root |-> root, name |-> name, body |-> body]

TreeA == <<Node("ClassDef", <<"F","o","o">>, 1), Node("FunctionDef", <<"b","a","r">>, 2),
           Node("FunctionDef", <<"b","a","z">>, 1)>>

ShapeText == <<"c","l","a","s","s"," ","S","h","a","p","e"," ","{"," ","i","n","t"," ","a","r","e","a","(",")"," ","{"," ","r","e","t","u","r","n"," ","c","o","m","p","u","t","e","(","x",")",";"," ","}"," ","}">>

GreetText == <<"f","u","n","c","t","i","o","n"," ","g","r","e","e","t","(",")","{","}">>

\* a directory tree with files of every kind, in walk order
Catalogue ==
    << DiskFile(<<".">>, <<"a",".","p","y">>, PyBody(TreeA, Filler)),
       DiskFile(<<".">>, <<"b","a","d",".","p","y">>, TextBody(<<"d","e","f"," ","(",":","\n">>)),
       DiskFile(<<".">>, <<"b",".","j","s">>, TextBody(GreetText)),
       DiskFile(<<".">>, <<"n","o","t","e","s",".","t","x","t">>, TextBody(<<"c","l","a","s","s"," ","F","o","o">>)),
       DiskFile(<<".","/","s","u","b">>, <<"s","h","a","p","e",".","c","p","p">>, TextBody(ShapeText)),
       DiskFile(<<".","/","s","u","b">>, <<"B","i","g",".","j","a","v","a">>,
                TextBody(<<"c","l","a","s","s"," ","F","o","o"," ","{"," ","v","o","i","d"," ","r","u","n","(","g","o","(","1",")",")",";"," ","}","\n">> \o Filler)) >>

\* the entries of c at the positions S, in the order of c
Pick(c, S) ==
    [k \in 1..Cardinality(S) |->
        c[CHOOSE j \in S : Cardinality({o \in S : o < j}) = k - 1]]

Listings == {Pick(Catalogue, S) :
                S \in {T \in SUBSET (1..Len(Catalogue)) : Cardinality(T) <= MaxFiles}}

NoReport == [exists |-> FALSE, content |-> <<>>]

OldReport == [exists |-> TRUE, content |-> <<"#"," ","o","l","d","\n">>]

\* the command lines of the runs over the catalogue
ArgsA == {<<>>, << <<"F","o","o">> >>, << <<"f","o","o">> >>, << <<"F","o">> >>,
          << <<"b","a","r">> >>, << <<"g","r","e","e","t">> >>, << <<"g","o">>, <<"x">> >>}

\* the command line of the runs over one generated Python source
ArgsPython == {<< <<"f">> >>}

\* the command line of the runs over one generated .cpp text
ArgsCpp == {<<>>}

Pieces == { <<"f","u","n","c","t","i","o","n">>, <<"c","l","a","s","s">>, <<" ">>, <<"f">>, <<"(">> }

\* a text of len characters: words of "a", every period-th character a space,
\* followed by a newline when the period is longer than 2
LongText(len, period) ==
    <<>> \o [k \in 1..len |-> IF k % period = 0 THEN " "
                              ELSE IF k % period = 1 /\ period > 2 THEN "\n" ELSE "a"]

LongLens == {2 * MinTokens - 3, 2 * MinTokens - 1}
            \cup ((MaxChars - 1)..(MaxChars + MaxExtra))

PlainSummary == <<"D","e","f","i","n","e","s"," ","F","o","o"," ","a","n","d"," ","b","a","r",".">>

\* the record of ./b.js of the catalogue
RecordB == [file |-> <<".","/","b",".","j","s">>, classes |-> <<>>, functions |-> << <<"g","r","e","e","t">> >>,
            summary |-> Sentinel]

\* a summary of several lines that reads like the end of one section of the
\* report followed by the section of ./b.js
SectionLikeSummary == PlainSummary \o section_tail \o section_head(RecordB) \o Sentinel

\* what the pipeline answers when called: a summary_text, or an exception
SummarizerResponses ==
    {[ok |-> TRUE, summary_text |-> PlainSummary],
     [ok |-> TRUE, summary_text |-> SectionLikeSummary],
     [ok |-> FALSE, summary_text |-> <<>>]}

\* the state before the first statement of a run
Start(ok, d, args, rep) ==
    /\ rootOK = ok
    /\ disk = d
    /\ sys_argv = <<Prog>> \o args
    /\ report = rep
    /\ pc = "start"
    /\ files = <<>>
    /\ i = 0
    /\ code_info = <<>>
    /\ results = <<>>
    /\ stdout = <<>>
    /\ log = <<>>

\* runs over the catalogue
InitCatalogue ==
    \E ok \in BOOLEAN, d \in Listings, a \in ArgsA, r \in {NoReport, OldReport} :
        Start(ok, d, a, r)

\* runs over one generated Python source
InitPython ==
    \E n \in 0..MaxNodes, a \in ArgsPython :
        \E labels \in [1..n -> Labels], depths \in [1..n -> 1..n] :
            /\ WellNested(depths)
            /\ Start(TRUE, <<DiskFile(Cwd, <<"m",".","p","y">>, PyBody(MakeTree(labels, depths), <<>>))>>,
                     a, NoReport)

\* runs over one generated .cpp text
InitCpp ==
    \E n \in 0..MaxToks, a \in ArgsCpp :
        \E pieces \in [1..n -> Pieces] :
            Start(TRUE, <<DiskFile(Cwd, <<"t",".","c","p","p">>, TextBody(Concat(pieces)))>>, a, NoReport)

\* runs over one text around the token and the character limit
InitLong ==
    \E n \in LongLens, p \in {2, 21}, a \in {<<>>, << <<"a">> >>} :
        Start(TRUE, <<DiskFile(Cwd, <<"l","o","n","g",".","j","s">>, TextBody(LongText(n, p)))>>, a, NoReport)

Init == InitCatalogue \/ InitPython \/ InitCpp \/ InitLong

(***************************************************************************)
(* The script body (__main__).                                             *)
(***************************************************************************)
\* search_mode, had the test been len(sys.argv) > 2
search_mode_two(argv) == Len(argv) > 2

\* len(sys.argv) > 1
search_mode(argv) == Len(argv) > 1

\* file.endswith(".py")
is_python(file) == str_endswith(file, <<".","p","y">>)

\* is_js_cpp, had ".java" been left out of the tuple
is_js_cpp_no_java(file) == any_endswith(file, << <<".","j","s">>, <<".","c","p","p">> >>)

\* file.endswith((".js", ".cpp", ".java"))
is_js_cpp(file) == any_endswith(file, << <<".","j","s">>, <<".","c","p","p">>, <<".","j","a","v","a">> >>)

\* loop_body, had the extraction been wrapped in try/except: pass
loop_body_swallow(file, response) ==
    LET r == IF is_python(file) THEN extract_python_info(file, response)
             ELSE extract_js_cpp_info(file, response)
    IN  [raised |-> FALSE, appended |-> IF r.raised THEN <<>> ELSE <<r.record>>,
         events |-> r.events]

\* one iteration of the extraction loop: the records appended (none or one)
loop_body(file, response) ==
    IF is_python(file)
    THEN LET r == extract_python_info(file, response)
         IN  [raised |-> r.raised, appended |-> IF r.raised THEN <<>> ELSE <<r.record>>,
              events |-> r.events]
    ELSE IF is_js_cpp(file)
    THEN LET r == extract_js_cpp_info(file, response)
         IN  [raised |-> r.raised, appended |-> IF r.raised THEN <<>> ELSE <<r.record>>,
              events |-> r.events]
    ELSE [raised |-> FALSE, appended |-> <<>>, events |-> <<>>]

\* line 96-97: files = get_code_files("."), code_info = []
Discover ==
    /\ pc = "start"
    /\ files' = get_code_files(Cwd, extensions)
    /\ code_info' = <<>>
    /\ i' = 1
    /\ pc' = "loop"
    /\ UNCHANGED <<rootOK, disk, sys_argv, results, stdout, report, log>>

\* lines 99-103: one iteration; an exception of the extraction ends the run
ExtractNext ==
    /\ pc = "loop"
    /\ i <= Len(files)
    /\ \E response \in SummarizerResponses :
          LET r == loop_body(files[i], response)
          IN  /\ log' = log \o r.events
              /\ code_info' = code_info \o r.appended
              /\ pc' = IF r.raised THEN "crashed" ELSE "loop"
              /\ i' = IF r.raised THEN i ELSE i + 1
    /\ UNCHANGED <<rootOK, disk, sys_argv, files, results, stdout, report>>

\* lines 105-113
SearchMode ==
    /\ pc = "loop"
    /\ i > Len(files)
    /\ search_mode(sys_argv)
    /\ results' = search_codebase(code_info, sys_argv[2])
    /\ stdout' = stdout \o search_output(results', sys_argv[2])
    /\ pc' = "done"
    /\ UNCHANGED <<rootOK, disk, sys_argv, files, i, code_info, report, log>>

\* lines 114-116; the event keeps the text that opening with "w" discards
ReportMode ==
    /\ pc = "loop"
    /\ i > Len(files)
    /\ ~search_mode(sys_argv)
    /\ log' = Append(log, Event("open_w", ReportPath, report.content))
    /\ report' = [exists |-> TRUE, content |-> generate_markdown_summary(code_info)]
    /\ stdout' = stdout \o <<Confirmation71, Confirmation116>>
    /\ pc' = "done"
    /\ UNCHANGED <<rootOK, disk, sys_argv, files, i, code_info, results>>

Next == Discover \/ ExtractNext \/ SearchMode \/ ReportMode


Spec == Init /\ [][Next]_vars

(***************************************************************************)
(* Vocabulary of the properties.                                           *)
(***************************************************************************)
HasArgument == Len(sys_argv) >= 2

Term == sys_argv[2]

Elems(seq) == {seq[k] : k \in DOMAIN seq}

\* the k-th smallest member of a set of numbers
Kth(S, k) == CHOOSE j \in S : Cardinality({o \in S : o < j}) = k - 1

EventsOf(ev) == {k \in DOMAIN log : log[k].ev = ev}

EventsFor(ev, path) == {k \in DOMAIN log : log[k].ev = ev /\ log[k].path = path}

\* the report file was not opened for writing and is as the earlier run left it
ReportUntouched == EventsOf("open_w") = {} /\ report \in {NoReport, OldReport}

\* a found header or a not-found line
IsSearchMessage(line) == line # <<>> /\ line[1] \in {"U+1F50D", "U+274C"}

\* the extraction loop has run to its end
ExtractionComplete == pc = "done" \/ (pc = "loop" /\ i > Len(files))

(***************************************************************************)
(* C1: the mode is decided by the presence of an argument alone.  With an  *)
(* argument the run never opens the report file and, once extraction is    *)
(* complete, prints the found header and the matching paths or the single  *)
(* not-found line; without one it prints no search message and writes the  *)
(* report file.                                                            *)
(***************************************************************************)
C1_ModeByArgument ==
    /\ HasArgument => ReportUntouched
    /\ ~HasArgument => \A k \in DOMAIN stdout : ~IsSearchMessage(stdout[k])
    /\ (pc = "done" /\ HasArgument) =>
          \/ /\ results = <<>>
             /\ stdout = <<NotFound(Term)>>
          \/ /\ results # <<>>
             /\ Len(stdout) = Len(results) + 1
             /\ stdout[1] = FoundHeader(Term)
             /\ \A k \in DOMAIN results : stdout[k + 1] = FoundLine(results[k])
    /\ (pc = "done" /\ ~HasArgument) =>
          /\ report.exists
          /\ Cardinality(EventsOf("open_w")) = 1
          /\ report.content = generate_markdown_summary(code_info)

C1_Witness ==
    /\ pc = "done"
    /\ HasArgument
    /\ Len(stdout) >= 2
    /\ IsSearchMessage(stdout[1])

(***************************************************************************)
(* C2: search_codebase returns the paths of exactly the records that have  *)
(* the term as an element of classes or of functions, once each, in the    *)
(* order of the records; it is empty when nothing matches, and the search  *)
(* always returns.                                                         *)
(***************************************************************************)
Matching(items, term) ==
    {k \in DOMAIN items : term \in Elems(items[k].classes) \cup Elems(items[k].functions)}

C2_SearchExact ==
    /\ (pc = "done" /\ HasArgument) =>
          LET M == Matching(code_info, Term)
          IN  /\ Len(results) = Cardinality(M)
              /\ \A k \in DOMAIN results : results[k] = code_info[Kth(M, k)].file
    /\ (pc = "loop" /\ i > Len(files) /\ HasArgument) => ENABLED SearchMode

C2_Witness ==
    /\ pc = "done"
    /\ HasArgument
    /\ Len(code_info) = 2
    /\ results = <<code_info[2].file>>

(***************************************************************************)
(* C3: generate_ai_summary returns the sentinel without calling the        *)
(* summarizer for a text of fewer than 50 whitespace-separated tokens, and *)
(* otherwise calls the summarizer exactly once with the first 1024         *)
(* characters of the text (all of it when it is shorter).                  *)
(***************************************************************************)
\* the number of tokens, counted at their last characters
TokenCount(t) ==
    Cardinality({k \in 1..Len(t) : /\ ~IsSpace(t[k])
                                   /\ (k = Len(t) \/ IsSpace(t[k + 1]))})

\* the files for which generate_ai_summary was entered
Entered == {log[k].path : k \in EventsOf("generate_ai_summary")}

C3_SummaryPolicy ==
    \A p \in Entered :
        LET t == read(p).text
            calls == EventsFor("summarizer", p)
        IN  IF TokenCount(t) < 50
            THEN /\ calls = {}
                 /\ \E k \in DOMAIN code_info :
                       code_info[k].file = p /\ code_info[k].summary = Sentinel
            ELSE /\ Cardinality(calls) = 1
                 /\ \A c \in calls :
                       /\ Len(log[c].text) = (IF Len(t) > 1024 THEN 1024 ELSE Len(t))
                       /\ \A j \in 1..Len(log[c].text) : log[c].text[j] = t[j]

C3_Witness ==
    \E p \in Entered :
        /\ Len(read(p).text) > 1024
        /\ TokenCount(read(p).text) >= 50
        /\ EventsFor("summarizer", p) # {}

Raised == EventsOf("raise") # {}

C5_FailFast ==
    /\ (\E k \in EventsOf("ast.parse") : ~read(log[k].path).valid) => Raised
    /\ Raised => pc = "crashed"
    /\ pc = "crashed" =>
          /\ log[Len(log)] = Event("raise", files[i], <<>>)
          /\ \A k \in DOMAIN log : \E j \in 1..i : log[k].path = files[j]
          /\ Len(code_info) = i - 1
          /\ ReportUntouched
          /\ stdout = <<>>
          /\ ~ENABLED Next

C5_Witness ==
    /\ pc = "crashed"
    /\ i = 1
    /\ Len(files) = 2

(***************************************************************************)
(* C6: generate_markdown_summary replaces the report file by the title and *)
(* one section per record in order: base name heading, path line, Classes  *)
(* heading and bullets iff classes is non-empty, Functions heading and     *)
(* bullets iff functions is non-empty, the summary under its sub-heading,  *)
(* a horizontal rule.  With no record the file holds the title only.       *)
(***************************************************************************)
\* the part of a path after its last separator
BaseName(path) ==
    CHOOSE b \in {SubSeq(path, k, Len(path)) : k \in 1..(Len(path) + 1)} :
        /\ "/" \notin Elems(b)
        /\ Len(b) = Len(path) \/ path[Len(path) - Len(b)] = "/"

BulletLines(names) == [k \in DOMAIN names |-> <<"-"," ","U+0060">> \o names[k] \o <<"U+0060">>]

TitleLines == << <<"#"," ","C","o","d","e","M","a","p"," ","S","u","m","m","a","r","y"," ","(","A","I","-","P","o","w","e","r","e","d",")"," ","U+1F916">>, <<>> >>

SectionLines(item) ==
    << <<"#","#"," ">> \o BaseName(item.file),
       <<"U+1F4C2"," ","*","*","P","a","t","h",":","*","*"," ","U+0060">> \o item.file \o <<"U+0060">>,
       <<>> >>
    \o (IF Len(item.classes) > 0
        THEN << <<"#","#","#"," ","C","l","a","s","s","e","s">> >> \o BulletLines(item.classes) ELSE <<>>)
    \o (IF Len(item.functions) > 0
        THEN << <<>>, <<"#","#","#"," ","F","u","n","c","t","i","o","n","s">> >> \o BulletLines(item.functions) ELSE <<>>)
    \o << <<>>,
          <<"#","#","#"," ","A","I","-","P","o","w","e","r","e","d"," ","S","u","m","m","a","r","y"," ","U+1F4DC">>,
          <<"U+1F4DD"," ">> \o item.summary,
          <<>>, <<>>,
          <<"-","-","-">> >>

\* the lines, each ended by a newline
Document(lines) == Concat([k \in DOMAIN lines |-> lines[k] \o <<"\n">>])

C6_ReportLayout ==
    (pc = "done" /\ ~HasArgument) =>
        /\ report.exists
        /\ report.content =
              Document(TitleLines
                       \o Concat([k \in DOMAIN code_info |-> SectionLines(code_info[k])]))
        /\ code_info = <<>> => report.content = Document(TitleLines)

C6_Witness ==
    /\ pc = "done"
    /\ ~HasArgument
    /\ \E k \in EventsOf("open_w") : log[k].text # <<>>
    /\ Len(code_info) = 2
    /\ code_info[1].classes # <<>>
    /\ code_info[2].classes = <<>>
    /\ code_info[2].functions # <<>>

(***************************************************************************)
(* The record sequences a written report is compared with.                 *)
(***************************************************************************)
\* most records of a compared sequence
MaxRecords == 2

UniverseRecords ==
    {[file |-> n[1], classes |-> n[2], functions |-> n[3], summary |-> s] :
        n \in {<< <<".","/","a",".","p","y">>, << <<"F","o","o">> >>, << <<"b","a","z">>, <<"b","a","r">> >> >>,
               << <<".","/","b",".","j","s">>, <<>>, << <<"g","r","e","e","t">> >> >>,
               << <<".","/","b",".","j","s">>, << <<"g","r","e","e","t">> >>, <<>> >>},
        s \in {Sentinel, PlainSummary, SectionLikeSummary}}

RECURSIVE SeqsOfLen(_, _)
SeqsOfLen(S, n) ==
    IF n = 0 THEN {<<>>}
    ELSE {Append(q, x) : q \in SeqsOfLen(S, n - 1), x \in S}

Universe == UNION {SeqsOfLen(UniverseRecords, n) : n \in 0..MaxRecords}

\* every sequence of the universe with the document it renders to
DocPairs == {<<r, generate_markdown_summary(r)>> : r \in Universe}

\* the sequences of the universe that render to the text doc
RenderingTo(doc) == {p[1] : p \in {q \in DocPairs : Len(q[2]) = Len(doc) /\ q[2] = doc}}

\* no path, name or summary of the records contains a line break
SingleLine(items) ==
    \A k \in DOMAIN items :
        /\ "\n" \notin Elems(items[k].file) \cup Elems(items[k].summary)
        /\ \A n \in Elems(items[k].classes) \cup Elems(items[k].functions) :
              "\n" \notin Elems(n)

(***************************************************************************)
(* C7 as stated: rendering loses none of base name, path, classes,         *)
(* functions and summary, so that no other record sequence renders to the  *)
(* document that was written.                                              *)
(***************************************************************************)
C7_RoundTrip ==
    (pc = "done" /\ ~HasArgument) =>
        \A r \in RenderingTo(report.content) : r = code_info

(***************************************************************************)
(* C7 as amended: among record sequences whose paths, names and summaries  *)
(* contain no line break, no other sequence renders to the document that   *)
(* was written.  (A summary of several lines can read like the end of its  *)
(* section followed by further sections.)                                  *)
(***************************************************************************)
C7_RoundTripSingleLine ==
    (pc = "done" /\ ~HasArgument /\ SingleLine(code_info)) =>
        \A r \in RenderingTo(report.content) : SingleLine(r) => r = code_info

C7_Witness ==
    /\ pc = "done"
    /\ ~HasArgument
    /\ SingleLine(code_info)
    /\ Len(code_info) = 2
    /\ code_info \in RenderingTo(report.content)

(***************************************************************************)
(* C8 as stated, on its two examples: from the text                        *)
(* "class Shape { int area() { return compute(x); } }" the pattern-based   *)
(* extraction returns the functions area and compute, and from             *)
(* "function greet(){}" it returns greet.                                  *)
(***************************************************************************)
C8_PatternExamples ==
    \A k \in DOMAIN code_info :
        LET t == read(code_info[k].file).text
        IN  ~str_endswith(code_info[k].file, <<".","p","y">>) =>
               /\ t = ShapeText => code_info[k].functions = << <<"a","r","e","a">>, <<"c","o","m","p","u","t","e">> >>
               /\ t = GreetText => code_info[k].functions = << <<"g","r","e","e","t">> >>

(***************************************************************************)
(* C9: the records are one per discovered file, in discovery order, none   *)
(* skipped; each file went through the one strategy of its extension       *)
(* (ast.parse for .py, the patterns for .js, .cpp and .java) and through   *)
(* generate_ai_summary once; an appended record never changes.             *)
(***************************************************************************)
\* the files a walk of the directory finds, written from the listing
Discovered ==
    LET hits == {k \in DOMAIN disk :
                    \E e \in { <<".","p","y">>, <<".","j","s">>, <<".","c","p","p">>, <<".","j","a","v","a">> } :
                        str_endswith(disk[k].name, e)}
    IN  IF rootOK
        THEN [k \in 1..Cardinality(hits) |->
                 disk[Kth(hits, k)].root \o <<"/">> \o disk[Kth(hits, k)].name]
        ELSE <<>>

C9_Records ==
    /\ pc # "start" => files = Discovered
    /\ \A k \in DOMAIN code_info : code_info[k].file = files[k]
    /\ pc = "loop" => Len(code_info) = i - 1
    /\ ExtractionComplete =>
          /\ Len(code_info) = Len(files)
          /\ \A k \in DOMAIN files :
                /\ Cardinality(EventsFor("generate_ai_summary", files[k])) = 1
                /\ Cardinality(EventsFor("open", files[k])) = 1
                /\ IF str_endswith(files[k], <<".","p","y">>)
                   THEN /\ Cardinality(EventsFor("ast.parse", files[k])) = 1
                        /\ EventsFor("re.findall", files[k]) = {}
                   ELSE /\ Cardinality(EventsFor("re.findall", files[k])) = 1
                        /\ EventsFor("ast.parse", files[k]) = {}

C9_OneRecordPerFile ==
    /\ []C9_Records
    /\ [][\A k \in DOMAIN code_info :
              k \in DOMAIN code_info' /\ code_info'[k] = code_info[k]]_vars

C9_Witness ==
    /\ ExtractionComplete
    /\ Len(code_info) = 2
    /\ str_endswith(files[1], <<".","p","y">>)
    /\ str_endswith(files[2], <<".","j","a","v","a">>)

(***************************************************************************)
(* C10 as stated: for a valid Python source, classes holds the name of     *)
(* every ClassDef node and functions the name of every FunctionDef node,   *)
(* at any depth, in the order in which they occur in the text.             *)
(***************************************************************************)
NodesOfKind(tree, kind) == {n \in DOMAIN tree : tree[n].kind = kind}

TextualNames(tree, kind) ==
    LET K == NodesOfKind(tree, kind)
    IN  [k \in 1..Cardinality(K) |-> tree[Kth(K, k)].name]

C10_TextualOrder ==
    \A k \in DOMAIN code_info :
        LET tree == read(code_info[k].file).tree
        IN  str_endswith(code_info[k].file, <<".","p","y">>) =>
               /\ code_info[k].classes = TextualNames(tree, "ClassDef")
               /\ code_info[k].functions = TextualNames(tree, "FunctionDef")

(***************************************************************************)
(* C10 as amended: the same names, every node at any depth, but ordered    *)
(* breadth-first as ast.walk yields them: a definition nearer the top      *)
(* level comes before a more deeply nested one, and definitions of the     *)
(* same depth come in the order of the text.                               *)
(***************************************************************************)
BreadthNames(tree, kind) ==
    LET K == NodesOfKind(tree, kind)
        Before(m, n) == \/ tree[m].depth < tree[n].depth
                        \/ tree[m].depth = tree[n].depth /\ m < n
    IN  [k \in 1..Cardinality(K) |->
            tree[CHOOSE n \in K : Cardinality({m \in K : Before(m, n)}) = k - 1].name]

C10_BreadthFirstOrder ==
    \A k \in DOMAIN code_info :
        LET tree == read(code_info[k].file).tree
        IN  str_endswith(code_info[k].file, <<".","p","y">>) =>
               /\ code_info[k].classes = BreadthNames(tree, "ClassDef")
               /\ code_info[k].functions = BreadthNames(tree, "FunctionDef")

C10_Witness ==
    \E k \in DOMAIN code_info :
        /\ str_endswith(code_info[k].file, <<".","p","y">>)
        /\ Len(code_info[k].functions) = 2
        /\ code_info[k].functions # TextualNames(read(code_info[k].file).tree, "FunctionDef")

====
